---- MODULE Spec2Model ----
(***************************************************************************)
(* Model of road-tracker's server.js: the Supabase REST adapter            *)
(* (supabaseRequest), the job repository functions built on it, the        *)
(* expiration computation, the cleanup and the HTTP handler.               *)
(*                                                                         *)
(* JavaScript values are tagged records, so that undefined, null, numbers, *)
(* strings and arrays stay distinct.  A timestamp string is modelled by    *)
(* the instant it denotes (ms since the epoch) and by whether it is in the *)
(* canonical form Date.prototype.toISOString produces: parsing forgets the *)
(* form, formatting always yields the canonical one.                       *)
(***************************************************************************)
EXTENDS Integers, Sequences, FiniteSets, TLC

VARIABLES
    store,      \* the jobs table of the external store: job_id -> row or NoRow
    clock,      \* the wall clock, ms since the epoch (what new Date() reads)
    calls,      \* per handler instance: the store request it awaits, or Idle
    last,       \* the request completed most recently and what came of it
    arg,        \* a function called on its own: its argument
    out,        \* a function called on its own: its result, or Pending
    sched       \* the process: its configuration, its phase, its cleanup timer

vars == <<store, clock, calls, last, arg, out, sched>>

----------------------------------------------------------------------------
(* Bounds of the model *)

\* number of clock advances explored
MaxTicks == 1
\* longest segments / delays list given to calculateExpiresAt under test
MaxLen == 2
\* number of cleanup intervals explored after process start
MaxHours == 2

----------------------------------------------------------------------------
(* JavaScript values *)

Undefined == [type |-> "undefined"]
Null == [type |-> "null"]
Num(n) == [type |-> "number", num |-> n]
Str(s) == [type |-> "string", str |-> s]
Arr(s) == [type |-> "array", items |-> s]
\* an ISO 8601 timestamp string denoting instant ms
Iso(ms, canon) == [type |-> "string", ms |-> ms, canon |-> canon]

\* !v is true for undefined, null, 0 and "" (no modelled string is empty)
\* a job object (a record without a type tag) is truthy
Falsy(v) ==
    /\ "type" \in DOMAIN v
    /\ \/ v.type \in {"undefined", "null"}
       \/ (v.type = "number" /\ v.num = 0)

\* Array.isArray(v)
IsArray(v) == v.type = "array"

\* new Date(s).getTime()
getTime(s) == s.ms

\* new Date(ms).toISOString()
toISOString(ms) == Iso(ms, TRUE)

\* JSON.stringify(obj) followed by the receiver's parse: properties whose value
\* is undefined are dropped from the text
JSONstringify(obj) ==
    [f \in {g \in DOMAIN obj : obj[g] # Undefined} |-> obj[f]]

----------------------------------------------------------------------------
(* calculateExpiresAt *)

MsPerMinute == 60000
GraceMinutes == 24 * 60

\* job.segments.forEach(s => { totalMinutes += s.duration || 0; })
RECURSIVE SumDurations(_)
SumDurations(segs) ==
    IF segs = <<>> THEN 0
    ELSE (IF Falsy(Head(segs).duration) THEN 0 ELSE Head(segs).duration.num)
         + SumDurations(Tail(segs))

\* job.delays.reduce((sum, d) => sum + (d.minutes || 0), 0)
RECURSIVE SumDelays(_)
SumDelays(ds) ==
    IF ds = <<>> THEN 0
    ELSE (IF Falsy(Head(ds).minutes) THEN 0 ELSE Head(ds).minutes.num)
         + SumDelays(Tail(ds))

\* calculateExpiresAt without the delays
calculateExpiresAtNoDelays(job) ==
    IF Falsy(job.startTime) THEN Null
    ELSE LET startTime == getTime(job.startTime)
             totalMinutes == IF IsArray(job.segments)
                             THEN SumDurations(job.segments.items) ELSE 0
         IN  toISOString(startTime
                 + (totalMinutes + GraceMinutes) * MsPerMinute)

calculateExpiresAt(job) ==
    IF Falsy(job.startTime) THEN Null
    ELSE LET startTime == getTime(job.startTime)
             totalMinutes == IF IsArray(job.segments)
                             THEN SumDurations(job.segments.items) ELSE 0
             totalDelays == IF IsArray(job.delays)
                            THEN SumDelays(job.delays.items) ELSE 0
         IN  toISOString(startTime
                 + (totalMinutes + totalDelays + GraceMinutes) * MsPerMinute)

----------------------------------------------------------------------------
(* Rows, jobs and the requests the repository sends *)

JobIds == {"J1", "J2"}

Columns == {"job_id", "name", "start_time", "segments", "delays",
            "next_segment_id", "created_at", "last_updated", "expires_at"}

\* the table holds no row under this job_id
NoRow == [absent |-> TRUE]

rowToJob(row) ==
    [id |-> row.job_id,
     name |-> row.name,
     startTime |-> row.start_time,
     segments |-> row.segments,
     delays |-> IF Falsy(row.delays) THEN Arr(<<>>) ELSE row.delays,
     nextSegmentId |-> row.next_segment_id,
     createdAt |-> row.created_at,
     lastUpdated |-> row.last_updated,
     expiresAt |-> row.expires_at]

\* the row createJob builds, with now the reading of new Date()
createRow(job, now) ==
    [job_id |-> job.id,
     name |-> job.name,
     start_time |-> job.startTime,
     segments |-> job.segments,
     delays |-> IF Falsy(job.delays) THEN Arr(<<>>) ELSE job.delays,
     next_segment_id |-> IF Falsy(job.nextSegmentId) THEN Num(6)
                         ELSE job.nextSegmentId,
     created_at |-> IF Falsy(job.createdAt) THEN toISOString(now)
                    ELSE job.createdAt,
     last_updated |-> toISOString(now),
     expires_at |-> calculateExpiresAt(job)]

\* updateJob writing the body's createdAt as well
updateRowWithCreatedAt(job, now) ==
    [name |-> job.name,
     start_time |-> job.startTime,
     segments |-> job.segments,
     delays |-> IF Falsy(job.delays) THEN Arr(<<>>) ELSE job.delays,
     next_segment_id |-> IF Falsy(job.nextSegmentId) THEN Num(6)
                         ELSE job.nextSegmentId,
     created_at |-> job.createdAt,
     last_updated |-> toISOString(now),
     expires_at |-> calculateExpiresAt(job)]

\* the row updateJob builds: no job_id and no created_at
updateRow(job, now) ==
    [name |-> job.name,
     start_time |-> job.startTime,
     segments |-> job.segments,
     delays |-> IF Falsy(job.delays) THEN Arr(<<>>) ELSE job.delays,
     next_segment_id |-> IF Falsy(job.nextSegmentId) THEN Num(6)
                         ELSE job.nextSegmentId,
     last_updated |-> toISOString(now),
     expires_at |-> calculateExpiresAt(job)]

\* the filters of the endpoints the repository builds
AllRows == [kind |-> "all"]
ById(jobId) == [kind |-> "job_id=eq", id |-> jobId]
Expired(now) == [kind |-> "expires_at=lt", now |-> now]

\* the filter with lte in place of lt
IsExpiredLte(row, now) ==
    /\ row.expires_at # Null
    /\ getTime(row.expires_at) <= getTime(now)

\* the filter with gt in place of lt
IsExpiredGt(row, now) ==
    /\ row.expires_at # Null
    /\ getTime(row.expires_at) > getTime(now)

\* the filter taking a null expires_at as expired
IsExpiredOrNull(row, now) ==
    IF row.expires_at = Null THEN TRUE
    ELSE getTime(row.expires_at) < getTime(now)

\* expires_at=lt.${now}&expires_at=not.is.null
IsExpired(row, now) ==
    /\ row.expires_at # Null
    /\ getTime(row.expires_at) < getTime(now)

Matches(row, filter) ==
    CASE filter.kind = "all" -> TRUE
      [] filter.kind = "job_id=eq" -> row.job_id = Str(filter.id)
      [] filter.kind = "expires_at=lt" -> IsExpired(row, filter.now)

\* the ids of the stored rows a filter selects
Selected(st, filter) ==
    {id \in JobIds : st[id] # NoRow /\ Matches(st[id], filter)}

----------------------------------------------------------------------------
(* The store's side of a request: its effect on the table and its answer *)

\* POST jobs: the columns the body leaves out take the column default, null
InsertedRow(body) ==
    [c \in Columns |-> IF c \in DOMAIN body THEN body[c] ELSE Null]

\* job_id is the table's key: a second row with the same job_id is refused
IsDuplicate(st, body) ==
    \E id \in JobIds : st[id] # NoRow /\ st[id].job_id = body.job_id

\* PATCH: the columns the body names are overwritten, the others are kept
PatchedRow(row, body) ==
    [c \in Columns |-> IF c \in DOMAIN body THEN body[c] ELSE row[c]]

\* the table after the store has carried out the request
StoreAfter(st, req) ==
    CASE req.method = "GET" -> st
      [] req.method = "POST" ->
            [st EXCEPT ![req.body.job_id.str] = InsertedRow(req.body)]
      [] req.method = "PATCH" ->
            [id \in JobIds |-> IF id \in Selected(st, req.filter)
                               THEN PatchedRow(st[id], req.body) ELSE st[id]]
      [] req.method = "DELETE" ->
            [id \in JobIds |-> IF id \in Selected(st, req.filter)
                               THEN NoRow ELSE st[id]]

\* order=created_at.desc
RECURSIVE OrderDesc(_, _)
OrderDesc(st, ids) ==
    IF ids = {} THEN <<>>
    ELSE LET top == CHOOSE i \in ids : \A j \in ids :
                        getTime(st[j].created_at) <= getTime(st[i].created_at)
         IN  <<st[top]>> \o OrderDesc(st, ids \ {top})

\* Prefer: return=representation: the rows read, inserted, patched or deleted
Representation(st, req) ==
    CASE req.method = "GET" -> OrderDesc(st, Selected(st, req.filter))
      [] req.method = "POST" -> <<InsertedRow(req.body)>>
      [] req.method = "PATCH" ->
            OrderDesc(StoreAfter(st, req), Selected(st, req.filter))
      [] req.method = "DELETE" -> OrderDesc(st, Selected(st, req.filter))

\* what comes back from https.request: a response (status, body) or a
\* transport error; kind is the shape of the body text
OkResponse(st, req) ==
    [status |-> IF req.method = "POST" THEN 201 ELSE 200,
     kind |-> "json", rows |-> Representation(st, req)]

BodyKinds == {"empty", "json", "text"}
TransportError == [status |-> 0, kind |-> "error", rows |-> <<>>]

\* the answers that leave the table as it was
Refusals(st, req) ==
    {[status |-> 500, kind |-> k, rows |-> <<>>] : k \in BodyKinds}
    \cup {TransportError}
    \cup IF req.method = "POST" /\ IsDuplicate(st, req.body)
         THEN {[status |-> 409, kind |-> "json", rows |-> <<>>]} ELSE {}

\* every answer the store may give to the request
Responses(st, req) ==
    Refusals(st, req)
    \cup IF req.method = "POST" /\ IsDuplicate(st, req.body)
         THEN {} ELSE {OkResponse(st, req)}

\* the store carried the request out
Applied(res) == res.kind # "error" /\ res.status < 400

----------------------------------------------------------------------------
(* supabaseRequest: how the promise settles for a given answer *)

Resolved(v) == [state |-> "resolved", value |-> v]
Rejected == [state |-> "rejected", value |-> Undefined]

\* the res.on('end') callback, and req.on('error', reject)
supabaseRequest(res) ==
    IF res.kind = "error" THEN Rejected
    ELSE IF res.kind = "text"
         \* JSON.parse throws; the catch resolves with the raw text
         THEN Resolved(Str("text"))
         ELSE IF res.status >= 400 THEN Rejected
              ELSE Resolved(IF res.kind = "empty" THEN Null ELSE Arr(res.rows))

----------------------------------------------------------------------------
(* The repository functions: what each returns once its request settled *)

Bool(b) == [type |-> "boolean", bool |-> b]
Obj(o) == [type |-> "object", obj |-> o]

getAllJobs(settled) ==
    IF settled.state = "rejected" THEN Obj(<<>>)
    ELSE IF IsArray(settled.value)
         THEN LET rows == settled.value.items
              IN  Obj([k \in {rows[i].job_id.str : i \in 1..Len(rows)} |->
                        rowToJob(rows[CHOOSE i \in 1..Len(rows) :
                                          rows[i].job_id.str = k])])
         ELSE Obj(<<>>)

getJob(settled) ==
    IF settled.state = "rejected" THEN Null
    ELSE IF ~IsArray(settled.value) \/ Len(settled.value.items) = 0 THEN Null
         ELSE rowToJob(settled.value.items[1])

createJob(job, settled) ==
    IF settled.state = "rejected" THEN Null ELSE job

\* updateJob taking an empty representation as a failure
updateJobChecksRows(job, row, settled) ==
    IF settled.state = "rejected" THEN Null
    ELSE IF IsArray(settled.value) /\ Len(settled.value.items) = 0 THEN Null
         ELSE [job EXCEPT !.lastUpdated = row.last_updated]

updateJob(job, row, settled) ==
    IF settled.state = "rejected" THEN Null
    ELSE [job EXCEPT !.lastUpdated = row.last_updated]

deleteJob(settled) ==
    Bool(settled.state = "resolved")

cleanupExpiredJobs(settled) ==
    Undefined

----------------------------------------------------------------------------
(* The HTTP handler: the response it writes for what the repository returned *)

Http(status, body) == [status |-> status, body |-> body]
NoResponse == Http(0, Undefined)
SuccessBody == Str("{success:true}")
NotFoundBody == Str("{error:Job not found}")
ErrorBody == Str("{error:Internal server error}")

\* the handler answering 404 when deleteJob returned false
RespondDeleteChecks(op, ret) ==
    CASE op = "getAllJobs" -> Http(200, ret)
      [] op = "getJob" -> IF Falsy(ret) THEN Http(404, NotFoundBody)
                          ELSE Http(200, ret)
      [] op = "createJob" -> Http(201, ret)
      [] op = "updateJob" -> IF Falsy(ret) THEN Http(404, NotFoundBody)
                             ELSE Http(200, ret)
      [] op = "deleteJob" -> IF ret = Bool(FALSE) THEN Http(404, NotFoundBody)
                             ELSE Http(200, SuccessBody)
      [] op = "cleanupExpiredJobs" -> Http(200, SuccessBody)

Respond(op, ret) ==
    CASE op = "getAllJobs" -> Http(200, ret)
      [] op = "getJob" -> IF Falsy(ret) THEN Http(404, NotFoundBody)
                          ELSE Http(200, ret)
      [] op = "createJob" -> Http(201, ret)
      [] op = "updateJob" -> IF Falsy(ret) THEN Http(404, NotFoundBody)
                             ELSE Http(200, ret)
      [] op = "deleteJob" -> Http(200, SuccessBody)
      [] op = "cleanupExpiredJobs" -> Http(200, SuccessBody)

\* a route that does not return after its response and falls through to
\* the final 404
HandleFallsThrough(op, ret) ==
    <<Respond(op, ret), Http(404, Str("{error:Not found}"))>>

\* the responses the handler writes for one request: each route writes its
\* response and returns
Handle(op, ret) ==
    <<Respond(op, ret)>>

----------------------------------------------------------------------------
(* Inputs *)

\* the handler instances that may await the store at the same time
Procs == {"h1", "h2"}
\* the cleanup invocations of the scheduler that may await the store at the
\* same time
Timers == {"t1", "t2"}
Slots == Procs \cup Timers

\* the period of the cleanup timer
IntervalMs == 60 * 60 * 1000

TickMs == 15 * MsPerMinute
\* the clock reading at process start
ClockStart == (GraceMinutes + 45) * MsPerMinute

\* a request body that fills every field, its own timestamps included;
\* the job it describes expires at ClockStart
FullJob(id) ==
    [id |-> Str(id),
     name |-> Str("a"),
     startTime |-> Iso(0, FALSE),
     segments |-> Arr(<<[duration |-> Num(30)]>>),
     delays |-> Arr(<<[minutes |-> Num(15)]>>),
     nextSegmentId |-> Num(7),
     createdAt |-> Iso(0, FALSE),
     lastUpdated |-> Iso(0, FALSE),
     expiresAt |-> Iso(0, FALSE)]

\* a request body that carries an id and a name only
SparseJob(id) ==
    [id |-> Str(id),
     name |-> Str("b"),
     startTime |-> Undefined,
     segments |-> Undefined,
     delays |-> Undefined,
     nextSegmentId |-> Undefined,
     createdAt |-> Undefined,
     lastUpdated |-> Undefined,
     expiresAt |-> Undefined]

\* the bodies of POST /api/jobs
Posts == {SparseJob("J1"), FullJob("J1"), FullJob("J2")}

\* the path ids and bodies of PUT /api/jobs/{id}; a body may name another id
Puts == {<<"J1", SparseJob("J1")>>, <<"J1", FullJob("J2")>>}

----------------------------------------------------------------------------
(* State *)

Idle == [op |-> "idle"]
Pending == [type |-> "pending"]

\* nothing has completed yet
Nothing ==
    [op |-> "none", id |-> "", now |-> Undefined, applied |-> FALSE,
     rows |-> 0, settled |-> "none", ret |-> Undefined,
     http |-> NoResponse, sent |-> 0]

\* completions are not recorded (behaviours with concurrent handlers)
NotWatched == [op |-> "unwatched"]

\* what is recorded of a completed request: the function and the id it was
\* called with, the clock reading of a cleanup, whether the store carried the
\* request out and on how many rows, how the promise settled, the returned
\* value, the response and the number of responses written
Completed(op, id, now, res, ret, writes) ==
    IF last = NotWatched THEN NotWatched
    ELSE [op |-> op, id |-> id,
          now |-> IF op = "cleanupExpiredJobs" THEN now ELSE Undefined,
          applied |-> Applied(res), rows |-> Len(res.rows),
          settled |-> supabaseRequest(res).state,
          ret |-> ret,
          http |-> IF writes = <<>> THEN NoResponse ELSE writes[1],
          sent |-> Len(writes)]

\* the environment variables the process needs
Config == {"SUPABASE_URL", "SUPABASE_KEY"}

\* the process after a start with its configuration present: it listens,
\* the cleanup timer is installed and the first cleanup has completed
Running ==
    [env |-> Config, phase |-> "running", code |-> 0, listening |-> TRUE,
     due |-> ClockStart + IntervalMs]

EmptyStore == [id \in JobIds |-> NoRow]

Init ==
    /\ store = EmptyStore
    /\ clock = ClockStart
    /\ calls = [p \in Slots |-> Idle]
    /\ last = Nothing
    /\ arg = Undefined
    /\ out = Pending
    /\ sched = Running

----------------------------------------------------------------------------
(* Actions *)

\* time passes
Tick ==
    /\ clock < ClockStart + MaxTicks * TickMs
    /\ clock' = clock + TickMs
    /\ UNCHANGED <<store, calls, last, arg, out, sched>>

\* GET /api/jobs: getAllJobs and the response
GetJobs ==
    \E res \in Responses(store, [method |-> "GET", filter |-> AllRows]) :
        LET ret == getAllJobs(supabaseRequest(res))
        IN  /\ last' = Completed("getAllJobs", "", Undefined, res, ret,
                                 Handle("getAllJobs", ret))
            /\ UNCHANGED <<store, clock, calls, arg, out, sched>>

\* GET /api/jobs/{id}: getJob and the response
GetJob(jobId) ==
    \E res \in Responses(store, [method |-> "GET", filter |-> ById(jobId)]) :
        LET ret == getJob(supabaseRequest(res))
        IN  /\ last' = Completed("getJob", jobId, Undefined, res, ret,
                                 Handle("getJob", ret))
            /\ UNCHANGED <<store, clock, calls, arg, out, sched>>

\* deleteJob sending its request with the method GET
DeleteJobSendsGet(jobId) ==
    LET req == [method |-> "GET", filter |-> ById(jobId)]
    IN  \E res \in Responses(store, req) :
            LET ret == deleteJob(supabaseRequest(res))
            IN  /\ store' = IF Applied(res) THEN StoreAfter(store, req)
                            ELSE store
                /\ last' = Completed("deleteJob", jobId, Undefined, res, ret,
                                     Handle("deleteJob", ret))
                /\ UNCHANGED <<clock, calls, arg, out, sched>>

\* DELETE /api/jobs/{id}: deleteJob and the response
DeleteJob(jobId) ==
    LET req == [method |-> "DELETE", filter |-> ById(jobId)]
    IN  \E res \in Responses(store, req) :
            LET ret == deleteJob(supabaseRequest(res))
            IN  /\ store' = IF Applied(res) THEN StoreAfter(store, req)
                            ELSE store
                /\ last' = Completed("deleteJob", jobId, Undefined, res, ret,
                                     Handle("deleteJob", ret))
                /\ UNCHANGED <<clock, calls, arg, out, sched>>

\* POST /api/jobs with a body that parses: createJob up to its await
PostJob(p, job) ==
    /\ calls[p] = Idle
    /\ LET row == createRow(job, clock)
       IN  calls' = [calls EXCEPT ![p] =
                [op |-> "createJob", id |-> job.id.str, job |-> job,
                 row |-> row, now |-> row.last_updated,
                 req |-> [method |-> "POST", filter |-> AllRows,
                          body |-> JSONstringify(row)]]]
    /\ UNCHANGED <<store, clock, last, arg, out, sched>>

\* PUT /api/jobs/{id} with a body that parses: updateJob up to its await
PutJob(p, jobId, job) ==
    /\ calls[p] = Idle
    /\ LET row == updateRow(job, clock)
       IN  calls' = [calls EXCEPT ![p] =
                [op |-> "updateJob", id |-> jobId, job |-> job,
                 row |-> row, now |-> row.last_updated,
                 req |-> [method |-> "PATCH", filter |-> ById(jobId),
                          body |-> JSONstringify(row)]]]
    /\ UNCHANGED <<store, clock, last, arg, out, sched>>

\* the request cleanupExpiredJobs awaits
cleanupCall(now) ==
    [op |-> "cleanupExpiredJobs", id |-> "", job |-> Undefined,
     row |-> Undefined, now |-> now,
     req |-> [method |-> "DELETE", filter |-> Expired(now)]]

\* cleanupExpiredJobs up to its await
Cleanup(p) ==
    /\ calls[p] = Idle
    /\ calls' = [calls EXCEPT ![p] = cleanupCall(toISOString(clock))]
    /\ UNCHANGED <<store, clock, last, arg, out, sched>>

\* the returned value of the function that awaited the request
Returned(call, settled) ==
    CASE call.op = "createJob" -> createJob(call.job, settled)
      [] call.op = "updateJob" -> updateJob(call.job, call.row, settled)
      [] call.op = "cleanupExpiredJobs" -> cleanupExpiredJobs(settled)

\* cleanupExpiredJobs without its try/catch: a rejected request throws
cleanupNoCatch(settled) ==
    settled.state = "rejected"

\* whether cleanupExpiredJobs throws: its catch takes every error
cleanupThrows(settled) ==
    FALSE

\* the process after a cleanup the timer started has settled: an error
\* thrown in the timer's callback is handled by nobody and ends the process
AfterTimer(settled) ==
    IF cleanupThrows(settled)
    THEN [sched EXCEPT !.phase = "exited", !.code = 1, !.listening = FALSE]
    ELSE sched

\* the store answers an awaited request; the function returns and the
\* handler writes its response (the timer's callback writes none)
Answer(p) ==
    /\ calls[p] # Idle
    /\ \E res \in Responses(store, calls[p].req) :
           LET settled == supabaseRequest(res)
               ret == Returned(calls[p], settled)
           IN  /\ store' = IF Applied(res) THEN StoreAfter(store, calls[p].req)
                           ELSE store
               /\ last' = Completed(calls[p].op, calls[p].id, calls[p].now,
                                    res, ret,
                                    IF p \in Timers THEN <<>>
                                    ELSE Handle(calls[p].op, ret))
               /\ sched' = IF p \in Timers THEN AfterTimer(settled) ELSE sched
    /\ calls' = [calls EXCEPT ![p] = Idle]
    /\ UNCHANGED <<clock, arg, out>>

\* POST or PUT with a body JSON.parse rejects: readBody rejects, the
\* handler's catch answers 500 and no store request is sent
BadBody(op) ==
    /\ last' = IF last = NotWatched THEN NotWatched
               ELSE [Nothing EXCEPT !.op = op, !.settled = "unsent",
                                    !.http = Http(500, ErrorBody),
                                    !.sent = 1]
    /\ UNCHANGED <<store, clock, calls, arg, out, sched>>

\* the requests of the handlers in procs
Serve(procs) ==
    \/ Tick
    \/ GetJobs
    \/ \E jobId \in JobIds : GetJob(jobId)
    \/ \E jobId \in JobIds : DeleteJob(jobId)
    \/ \E p \in procs, job \in Posts : PostJob(p, job)
    \/ \E p \in procs, put \in Puts : PutJob(p, put[1], put[2])
    \/ \E p \in procs : Cleanup(p)
    \/ \E p \in procs : Answer(p)
    \/ \E op \in {"createJob", "updateJob"} : BadBody(op)

\* one request is in flight at a time and every completion is recorded
Next == Serve({"h1"})

Spec == Init /\ [][Next]_vars

\* handlers run concurrently; completions are not recorded
InitRace ==
    /\ store = EmptyStore
    /\ clock = ClockStart
    /\ calls = [p \in Slots |-> Idle]
    /\ last = NotWatched
    /\ arg = Undefined
    /\ out = Pending
    /\ sched = Running

NextRace == Serve(Procs)

SpecRace == InitRace /\ [][NextRace]_vars

----------------------------------------------------------------------------
(* The pure functions called on their own *)

\* the instants a supplied startTime may denote, in either form
StartTimes == {Undefined, Null, Iso(0, FALSE), Iso(TickMs, TRUE)}

SegmentShapes == {[duration |-> Num(30)], [duration |-> Num(0)],
                  [duration |-> Undefined]}
DelayShapes == {[minutes |-> Num(15)], [minutes |-> Null]}

\* the sequences over S of length at most n
SeqsUpTo(S, n) == UNION {[1..k -> S] : k \in 0..n}

CalcJobs ==
    {[FullJob("J1") EXCEPT !.startTime = st, !.segments = sg, !.delays = dl] :
        st \in StartTimes,
        sg \in {Undefined} \cup {Arr(q) : q \in SeqsUpTo(SegmentShapes, MaxLen)},
        dl \in {Undefined} \cup {Arr(q) : q \in SeqsUpTo(DelayShapes, MaxLen)}}

\* the answers supabaseRequest may see
UnitResponses ==
    {[status |-> st, kind |-> k, rows |-> <<>>] :
        st \in {200, 201, 400, 404, 409, 500, 503}, k \in BodyKinds}
    \cup {TransportError}

InitUnits ==
    /\ store = EmptyStore
    /\ clock = ClockStart
    /\ calls = [p \in Slots |-> Idle]
    /\ last = Nothing
    /\ arg \in {[fn |-> "calculateExpiresAt", job |-> j] : j \in CalcJobs}
            \cup {[fn |-> "supabaseRequest", res |-> r] : r \in UnitResponses}
    /\ out = Pending
    /\ sched = Running

Calc ==
    /\ out = Pending
    /\ arg.fn = "calculateExpiresAt"
    /\ out' = calculateExpiresAt(arg.job)
    /\ UNCHANGED <<store, clock, calls, last, arg, sched>>

Settle ==
    /\ out = Pending
    /\ arg.fn = "supabaseRequest"
    /\ out' = supabaseRequest(arg.res)
    /\ UNCHANGED <<store, clock, calls, last, arg, sched>>

NextUnits == Calc \/ Settle

SpecUnits == InitUnits /\ [][NextUnits]_vars

----------------------------------------------------------------------------
(* Cleanup runs against a table left by an earlier run of the process *)

\* bodies whose jobs expire one tick before and one tick after ClockStart
EarlyJob(id) == [FullJob(id) EXCEPT !.delays = Arr(<<>>)]
LateJob(id) ==
    [FullJob(id) EXCEPT !.segments = Arr(<<[duration |-> Num(30)],
                                           [duration |-> Num(15)]>>)]

LeftRows(id) ==
    {InsertedRow(JSONstringify(createRow(job, 0))) :
        job \in {SparseJob(id), EarlyJob(id), FullJob(id), LateJob(id)}}

InitPurge ==
    /\ store \in {st \in [JobIds -> UNION {LeftRows(id) : id \in JobIds}] :
                     \A id \in JobIds : st[id] \in LeftRows(id)}
    /\ clock = ClockStart
    /\ calls = [p \in Slots |-> Idle]
    /\ last = Nothing
    /\ arg = Undefined
    /\ out = Pending
    /\ sched = Running

NextPurge ==
    \/ Tick
    \/ \E p \in Procs : Cleanup(p)
    \/ \E p \in Procs : Answer(p)

SpecPurge == InitPurge /\ [][NextPurge]_vars

----------------------------------------------------------------------------
(* The process from its start: configuration check, cleanup timer, listen *)

\* the process before the module's top-level code has run
Loading(env) ==
    [env |-> env, phase |-> "loading", code |-> 0, listening |-> FALSE,
     due |-> 0]

InitSched ==
    /\ store \in {EmptyStore} \cup
           {[id \in JobIds |->
                InsertedRow(JSONstringify(createRow(
                    IF id = "J1" THEN j ELSE LateJob(id), 0)))] :
               j \in {EarlyJob("J1"), SparseJob("J1")}}
    /\ clock = ClockStart
    /\ calls = [p \in Slots |-> Idle]
    /\ last = Nothing
    /\ arg = Undefined
    /\ out = Pending
    /\ sched \in {Loading(env) : env \in SUBSET Config}

\* the module's top-level code without the configuration check
StartNoCheck ==
    /\ sched.phase = "loading"
    /\ sched' = [sched EXCEPT !.phase = "running", !.listening = TRUE,
                              !.due = clock + IntervalMs]
    /\ calls' = [calls EXCEPT !["t1"] = cleanupCall(toISOString(clock))]
    /\ UNCHANGED <<store, clock, last, arg, out>>

\* the module's top-level code: without the configuration the process exits
\* with code 1; with it the timer is installed, cleanupExpiredJobs is called
\* (it runs up to its await) and the server listens
Start ==
    /\ sched.phase = "loading"
    /\ IF sched.env # Config
       THEN /\ sched' = [sched EXCEPT !.phase = "exited", !.code = 1]
            /\ UNCHANGED calls
       ELSE /\ sched' = [sched EXCEPT !.phase = "running", !.listening = TRUE,
                                      !.due = clock + IntervalMs]
            /\ calls' = [calls EXCEPT !["t1"] = cleanupCall(toISOString(clock))]
    /\ UNCHANGED <<store, clock, last, arg, out>>

\* one cleanup interval passes; a timer that is due fires before more time
\* passes
Hour ==
    /\ sched.phase # "loading"
    /\ clock < ClockStart + MaxHours * IntervalMs
    /\ sched.phase = "running" => clock < sched.due
    /\ clock' = clock + IntervalMs
    /\ UNCHANGED <<store, calls, last, arg, out, sched>>

\* the timer fires: cleanupExpiredJobs is called whatever came of the
\* earlier calls and whether or not they have returned
TimerFires(t) ==
    /\ sched.phase = "running"
    /\ clock >= sched.due
    /\ calls[t] = Idle
    /\ calls' = [calls EXCEPT ![t] = cleanupCall(toISOString(clock))]
    /\ sched' = [sched EXCEPT !.due = @ + IntervalMs]
    /\ UNCHANGED <<store, clock, last, arg, out>>

\* requests reach the handler only while the server listens
NextSched ==
    \/ Start
    \/ Hour
    \/ \E t \in Timers : TimerFires(t)
    \/ \E p \in Timers \cup {"h1"} : sched.phase = "running" /\ Answer(p)
    \/ sched.listening /\ Cleanup("h1")
    \/ sched.listening /\ GetJobs

SpecSched == InitSched /\ [][NextSched]_vars

----------------------------------------------------------------------------
(* A job is updated just as it expires *)

\* a body whose job expires one hour after ClockStart
FarJob(id) ==
    [FullJob(id) EXCEPT !.delays = Arr(<<[minutes |-> Num(15)],
                                        [minutes |-> Num(60)]>>)]

\* the table holds one job, which expires at ClockStart
InitExpiry ==
    /\ store = [EmptyStore EXCEPT !["J1"] =
                    InsertedRow(JSONstringify(createRow(FullJob("J1"), 0)))]
    /\ clock = ClockStart
    /\ calls = [p \in Slots |-> Idle]
    /\ last = Nothing
    /\ arg = Undefined
    /\ out = Pending
    /\ sched = Running

NextExpiry ==
    \/ Tick
    \/ \E p \in Procs : PutJob(p, "J1", FarJob("J1"))
    \/ \E p \in Procs : Cleanup(p)
    \/ \E p \in Procs : Answer(p)

SpecExpiry == InitExpiry /\ [][NextExpiry]_vars

----------------------------------------------------------------------------
(* Properties *)

\* the step in which the store answers the request handler p awaits
Answers(p, op) ==
    /\ calls[p] # Idle
    /\ calls[p].op = op
    /\ calls'[p] = Idle

\* the minutes a duration or minutes field counts for
MinutesOf(v) == IF v \in {Undefined, Null} THEN 0 ELSE v.num

\* the sum of field f over the first n entries of a list
RECURSIVE SumTo(_, _, _)
SumTo(items, f, n) ==
    IF n = 0 THEN 0 ELSE SumTo(items, f, n - 1) + MinutesOf(items[n][f])

\* the total of field f over a list that may be missing
TotalOf(list, f) ==
    IF list.type = "array" THEN SumTo(list.items, f, Len(list.items)) ELSE 0

\* C1: calculateExpiresAt returns null for a job without startTime, and for
\* a job with a startTime the instant startTime + (sum of segment durations
\* + sum of delay minutes + 1440) minutes, a missing duration or minutes
\* counting as 0 and a missing segments or delays list as empty.
C1_ExpiresAtFormula ==
    (arg.fn = "calculateExpiresAt" /\ out # Pending) =>
        IF arg.job.startTime \in {Undefined, Null}
        THEN out = Null
        ELSE /\ out.type = "string"
             /\ out.ms = arg.job.startTime.ms
                         + (TotalOf(arg.job.segments, "duration")
                            + TotalOf(arg.job.delays, "minutes") + 1440) * 60000

\* C1 witness: the function has run on a job with a startTime, two segments
\* of which one has no duration, and a delay with null minutes.
C1_Witness ==
    /\ arg.fn = "calculateExpiresAt"
    /\ out # Pending
    /\ out # Null
    /\ arg.job.segments.type = "array"
    /\ Len(arg.job.segments.items) = 2
    /\ arg.job.segments.items[1].duration = Num(30)
    /\ arg.job.segments.items[2].duration = Undefined
    /\ arg.job.delays.type = "array"
    /\ Len(arg.job.delays.items) = 2
    /\ arg.job.delays.items[1].minutes = Null
    /\ arg.job.delays.items[2].minutes = Num(15)

\* C2: a cleanup the store carried out removes exactly the jobs whose stored
\* expiresAt is non-null and strictly before the clock reading the cleanup
\* took, and leaves every other job present and unchanged.
C2_PurgeExact ==
    [][\A p \in Procs :
          (Answers(p, "cleanupExpiredJobs") /\ last'.applied) =>
              \A id \in JobIds :
                  store'[id] =
                      IF /\ store[id] # NoRow
                         /\ store[id].expires_at # Null
                         /\ store[id].expires_at.ms < calls[p].now.ms
                      THEN NoRow ELSE store[id]]_vars

\* C2 witness: a cleanup was carried out on the table that held both jobs;
\* it removed J1 and kept J2, whose expiresAt equals the cleanup's reading.
C2_Witness ==
    /\ last.op = "cleanupExpiredJobs"
    /\ last.applied
    /\ last.rows = 1
    /\ store["J1"] = NoRow
    /\ store["J2"] # NoRow
    /\ store["J2"].expires_at = last.now

\* C3 as stated: a cleanup carried out right after another one, with nothing
\* completed in between, leaves the table as the first one left it, whatever
\* the two clock readings.
C3_SecondPurgeNoOp ==
    [][\A p \in Procs :
          (/\ last.op = "cleanupExpiredJobs"
           /\ last.applied
           /\ Answers(p, "cleanupExpiredJobs")
           /\ last'.applied) => store' = store]_vars

\* C3 amended: the second cleanup removes exactly the jobs whose expiresAt
\* is non-null, at or after the first cleanup's reading and strictly before
\* its own; it changes nothing when there is no such job.
C3_SecondPurgeNewlyExpired ==
    [][\A p \in Procs :
          (/\ last.op = "cleanupExpiredJobs"
           /\ last.applied
           /\ Answers(p, "cleanupExpiredJobs")
           /\ last'.applied) =>
              \A id \in JobIds :
                  store'[id] =
                      IF /\ store[id] # NoRow
                         /\ store[id].expires_at # Null
                         /\ last.now.ms <= store[id].expires_at.ms
                         /\ store[id].expires_at.ms < calls[p].now.ms
                      THEN NoRow ELSE store[id]]_vars

\* C3 witness: a first cleanup was carried out and a second one, with a
\* later reading, is awaiting the store while a job expired in between.
C3_Witness ==
    /\ last.op = "cleanupExpiredJobs"
    /\ last.applied
    /\ \E p \in Procs :
          /\ calls[p] # Idle
          /\ calls[p].op = "cleanupExpiredJobs"
          /\ calls[p].now.ms > last.now.ms
          /\ \E id \in JobIds :
                /\ store[id] # NoRow
                /\ store[id].expires_at # Null
                /\ last.now.ms <= store[id].expires_at.ms
                /\ store[id].expires_at.ms < calls[p].now.ms

\* the fields of a job other than lastUpdated and expiresAt
KeptFields == {"id", "name", "startTime", "segments", "delays",
               "nextSegmentId", "createdAt"}

\* C4 as stated: when createJob has returned a job and the getJob of its id
\* completes next, the store having carried both requests out, the job
\* getJob returns equals the created one in id, name, startTime, segments,
\* delays, nextSegmentId and createdAt.
C4_CreateThenGet ==
    [][(/\ last.op = "createJob"
        /\ last.applied
        /\ last.ret # Null
        /\ last'.op = "getJob"
        /\ last'.id = last.id
        /\ last'.applied) =>
            /\ last'.ret # Null
            /\ \A f \in KeptFields : last'.ret[f] = last.ret[f]]_vars

\* C5: an update the store carried out leaves the job_id and the created_at
\* of every stored job as they were, and neither adds nor removes a job,
\* whatever id and createdAt the body carries.
C5_UpdateKeepsIdAndCreatedAt ==
    [][\A p \in Procs :
          Answers(p, "updateJob") =>
              \A id \in JobIds :
                  /\ (store'[id] = NoRow) = (store[id] = NoRow)
                  /\ store[id] # NoRow =>
                        /\ store'[id].job_id = store[id].job_id
                        /\ store'[id].created_at = store[id].created_at]_vars

\* C5 witness: J1, created with a server-assigned createdAt, has been updated
\* with a body that names J2 and carries a createdAt of its own.
C5_Witness ==
    /\ last.op = "updateJob"
    /\ last.id = "J1"
    /\ last.applied
    /\ last.rows = 1
    /\ last.ret.id = Str("J2")
    /\ store["J1"] # NoRow
    /\ store["J1"].name = last.ret.name
    /\ store["J1"].job_id = Str("J1")
    /\ store["J1"].created_at # last.ret.createdAt

\* C6 as stated: no step makes the stored lastUpdated of a job earlier than
\* it was.
C6_LastUpdatedMonotone ==
    [][\A id \in JobIds :
          (store[id] # NoRow /\ store'[id] # NoRow) =>
              store'[id].last_updated.ms >= store[id].last_updated.ms]_vars

C8_ExpiresAtDerived ==
    \A id \in JobIds :
        store[id] # NoRow =>
            store[id].expires_at = calculateExpiresAt(rowToJob(store[id]))

\* C9 as stated: for an answer with status 400 or above, whatever its body,
\* the promise of supabaseRequest rejects.
C9_ErrorStatusRejects ==
    (arg.fn = "supabaseRequest" /\ out # Pending /\ arg.res.status >= 400) =>
        out.state = "rejected"

\* C10 as stated: when the insert of createJob fails (its promise rejects),
\* POST /api/jobs answers with a 500-class status and not 201.
C10_PostFailureIs500 ==
    (last.op = "createJob" /\ last.settled = "rejected") =>
        /\ last.http.status # 201
        /\ last.http.status \in 500..599

\* C11 as stated: the job createJob returns after a successful insert carries
\* the createdAt and the lastUpdated that were written to the store.
C11_CreateReturnsServerTimestamps ==
    (last.op = "createJob" /\ last.applied /\ last.settled = "resolved") =>
        /\ last.ret # Null
        /\ last.ret.createdAt = store[last.id].created_at
        /\ last.ret.lastUpdated = store[last.id].last_updated

\* the value each repository function returns to signal a failure
FailureIndicator(op) ==
    CASE op = "getAllJobs" -> Obj(<<>>)
      [] op = "deleteJob" -> Bool(FALSE)
      [] op = "cleanupExpiredJobs" -> Undefined
      [] OTHER -> Null

\* C12 as stated: when the store did not carry a request out, the repository
\* function returns its failure indicator (empty mapping, null, false) and
\* the handler does not answer 500; GET /api/jobs answers 200.
C12_StoreFailureGivesIndicator ==
    (last.settled \in {"resolved", "rejected"} /\ ~last.applied) =>
        /\ last.ret = FailureIndicator(last.op)
        /\ last.http.status # 500
        /\ last.op = "getAllJobs" => last.http.status = 200

\* C13: started without the store endpoint or without the credential, the
\* process exits with a non-zero code and nothing else happens, then or
\* later: no store request, no timer, no cleanup, no listening server.
C13_MissingConfigExits ==
    (sched.env # Config /\ sched.phase # "loading") =>
        /\ sched.phase = "exited"
        /\ sched.code # 0
        /\ ~sched.listening
        /\ sched.due = 0
        /\ \A p \in Slots : calls[p] = Idle
        /\ last = Nothing

C13_Witness ==
    /\ sched.env = {"SUPABASE_KEY"}
    /\ sched.phase = "exited"
    /\ clock > ClockStart
    /\ store # EmptyStore

\* a cleanup of the scheduler called at the clock reading ms is awaiting the
\* store
Invoked(cs, ms) ==
    \E t \in Timers : cs[t] # Idle /\ cs[t].op = "cleanupExpiredJobs"
                                  /\ getTime(cs[t].now) = ms

\* C14: the process start calls cleanupExpiredJobs once and installs the
\* timer; from then on the process keeps running with its timer, whatever
\* came of a cleanup; the clock never passes a due tick, and every tick
\* calls cleanupExpiredJobs and is re-armed one interval later.
C14_SchedulerKeepsInvoking ==
    [][/\ (sched.phase = "loading" /\ sched'.phase = "running") =>
              /\ Invoked(calls', clock)
              /\ sched'.due = clock + IntervalMs
       /\ sched.phase = "running" =>
              /\ sched'.phase = "running"
              /\ clock' # clock => clock' <= sched.due
              /\ sched'.due \in {sched.due, sched.due + IntervalMs}
              /\ sched'.due # sched.due =>
                     /\ clock = sched.due
                     /\ Invoked(calls', clock)
                     /\ \E t \in Timers : calls[t] = Idle /\ calls'[t] # Idle]_vars

C14_Witness ==
    /\ last.op = "cleanupExpiredJobs"
    /\ last.settled = "rejected"
    /\ last.sent = 0
    /\ sched.phase = "running"
    /\ \E t \in Timers : /\ calls[t] # Idle
                         /\ getTime(calls[t].now) > getTime(last.now)

\* C15 as stated: at most one cleanup started by the scheduler awaits the
\* store at any moment.
C15_NoOverlappingPurges ==
    Cardinality({t \in Timers : calls[t] # Idle}) <= 1

\* C16: in every step, a job that leaves the store leaves it either by a
\* deleteJob on its own id that the store carried out, or by a cleanup whose
\* clock reading is strictly after the job's stored, non-null expires_at;
\* creating, updating and reading remove nothing.
C16_RemovalOnlyByDeleteOrPurge ==
    [][\A id \in JobIds :
          (store[id] # NoRow /\ store'[id] = NoRow) =>
              \/ /\ last'.op = "deleteJob"
                 /\ last'.id = id
                 /\ last'.applied
                 /\ calls' = calls
              \/ \E p \in Procs :
                     /\ Answers(p, "cleanupExpiredJobs")
                     /\ last'.op = "cleanupExpiredJobs"
                     /\ store[id].expires_at # Null
                     /\ getTime(store[id].expires_at) < getTime(calls[p].now)]_vars

C16_Witness ==
    /\ last.op = "cleanupExpiredJobs"
    /\ last.rows = 1
    /\ store["J2"] = NoRow
    /\ store["J1"] # NoRow
    /\ store["J1"].expires_at = Null

\* C18: DELETE /api/jobs/{id} is answered with 200 and the success body in
\* every case: the job existed or not, the store carried the delete out or
\* refused it, deleteJob returned true or false.
C18_DeleteAlways200 ==
    last.op = "deleteJob" => /\ last.http = Http(200, SuccessBody)
                             /\ last.ret \in {Bool(TRUE), Bool(FALSE)}

C18_Witness ==
    /\ last.op = "deleteJob"
    /\ last.ret = Bool(FALSE)
    /\ store[last.id] # NoRow
    /\ last.http.status = 200

\* C19: an updateJob on an id with no stored job, carried out by the store
\* on zero rows, leaves the store as it was and returns the supplied job
\* with the new lastUpdated, so that PUT answers 200 with that job.
C19_UpdateOfUnknownIdSucceeds ==
    [][\A p \in Procs :
          (/\ Answers(p, "updateJob")
           /\ store[calls[p].id] = NoRow
           /\ last'.applied
           /\ last'.settled = "resolved") =>
              /\ store' = store
              /\ last'.rows = 0
              /\ last'.ret = [calls[p].job EXCEPT
                                 !.lastUpdated = calls[p].row.last_updated]
              /\ last'.http = Http(200, last'.ret)]_vars

C19_Witness ==
    /\ last.op = "updateJob"
    /\ last.applied
    /\ last.settled = "resolved"
    /\ last.rows = 0
    /\ last.http.status = 200
    /\ store[last.id] = NoRow

\* C20: a request whose store call completes is answered in that step with
\* exactly one response; every completed request has exactly one response;
\* a request whose body does not parse is answered 500 with the generic
\* error body and sends nothing to the store.
C20_ExactlyOneResponse ==
    [][/\ \A p \in Procs :
              (calls[p] # Idle /\ calls'[p] = Idle) =>
                  /\ last'.op = calls[p].op
                  /\ last'.sent = 1
                  /\ last'.http # NoResponse
       /\ last' # last => last'.sent = 1
       /\ (last' # last /\ last'.settled = "unsent") =>
              /\ last'.http = Http(500, ErrorBody)
              /\ store' = store
              /\ calls' = calls]_vars

C20_Witness ==
    /\ last.settled = "unsent"
    /\ last.sent = 1
    /\ last.http.status = 500
    /\ calls["h1"] # Idle
    /\ store # EmptyStore

\* C17: a cleanup answered while an update of a job awaits the store removes
\* the job whenever its stored expires_at is before the cleanup's clock
\* reading, whatever expiry the pending update carries, and leaves the
\* update pending; the witness is the race run to its end: the update,
\* sent before the cleanup's reading and answered after it, is answered 200
\* with a job that expires in the future, and the job is absent.
C17_PurgeWinsOverPendingUpdate ==
    [][\A p \in Procs, q \in Procs :
          (/\ calls[p] # Idle
           /\ calls[p].op = "updateJob"
           /\ Answers(q, "cleanupExpiredJobs")
           /\ last'.applied
           /\ store[calls[p].id] # NoRow
           /\ store[calls[p].id].expires_at # Null
           /\ getTime(store[calls[p].id].expires_at) < getTime(calls[q].now)) =>
              /\ store'[calls[p].id] = NoRow
              /\ calls'[p] = calls[p]
              /\ getTime(calls[p].row.expires_at) > clock]_vars

C17_Witness ==
    /\ last.op = "updateJob"
    /\ last.applied
    /\ last.http = Http(200, last.ret)
    /\ getTime(calculateExpiresAt(last.ret)) > clock
    /\ getTime(last.ret.lastUpdated) < clock
    /\ store["J1"] = NoRow
    /\ \A p \in Slots : calls[p] = Idle

====
